---- MODULE Spec2Model ----
(***************************************************************************)
(* Model of Model_Development (src/model_developement.py): generation of   *)
(* the hyperparameter combinations, partitioning of the built models into  *)
(* batches, the report-based resume guard, and the two training entry      *)
(* points auto_grid_cv and manual_grid_cv with the files they create.      *)
(*                                                                         *)
(* Strings that the code formats, splits and matches (the dictionary keys  *)
(* "models<N>", the file names "report<N>_<stamp>.csv") are sequences of   *)
(* one-character strings, so formatting, split, replace and startswith are *)
(* computed character by character.                                        *)
(***************************************************************************)
EXTENDS Integers, Sequences, FiniteSets, TLC

(* ------------------------------ bounds --------------------------------- *)
\* number of invocations of the two entry points in one behaviour
MaxRuns == 2
\* number of fit calls that may raise in one behaviour, and the place in a
\* batch below which a model's fit may raise
MaxFailures == 1
MaxFailInd == 2
\* samples of the training series handed to the entry points
NSamples == 7
\* params.folds, params.epochs (the parameters module is configuration)
Folds == 2
Epochs == 2
\* clock ticks per second: the directory/report stamp has second resolution
TicksPerSecond == 2
\* the partition length, other than the default, used to prepare a batch for
\* manual_grid_cv
OtherPartitionLength == 600
\* longest ranges and partition lengths of the pure-function specification
MaxRange == 2
MaxPartLen == 12

(* ------------------------- program constants --------------------------- *)
DefaultPartitionLength == 60
IndexOffset == 60
TestModeLimit == 10

(* ------------------------------ strings -------------------------------- *)
S_models == <<"m", "o", "d", "e", "l", "s">>
S_report == <<"r", "e", "p", "o", "r", "t">>
S_saved_models == <<"s", "a", "v", "e", "d", "_", "m", "o", "d", "e", "l", "s">>
S_csv == <<".", "c", "s", "v">>

DigitChar(d) == <<"0", "1", "2", "3", "4", "5", "6", "7", "8", "9">>[d + 1]

\* str(n) / f"{n}" of an integer
RECURSIVE str(_)
str(n) ==
  IF n < 0 THEN <<"-">> \o str(-n)
  ELSE IF n < 10 THEN <<DigitChar(n)>>
  ELSE str(n \div 10) \o <<DigitChar(n % 10)>>

\* int(s) of a string of decimal digits
RECURSIVE int(_)
int(s) ==
  IF Len(s) = 1 THEN CHOOSE d \in 0..9 : DigitChar(d) = s[1]
  ELSE 10 * int(SubSeq(s, 1, Len(s) - 1))
       + (CHOOSE d \in 0..9 : DigitChar(d) = s[Len(s)])

\* s.startswith(p)
startswith(s, p) == Len(p) <= Len(s) /\ SubSeq(s, 1, Len(p)) = p

\* s.split(c) for a one-character separator c
RECURSIVE split(_, _)
split(s, c) ==
  IF \A k \in 1..Len(s) : s[k] # c THEN <<s>>
  ELSE LET k == CHOOSE k \in 1..Len(s) :
                  s[k] = c /\ \A j \in 1..(k - 1) : s[j] # c
       IN  <<SubSeq(s, 1, k - 1)>> \o split(SubSeq(s, k + 1, Len(s)), c)

\* s.replace(old, new)
RECURSIVE replace(_, _, _)
replace(s, old, new) ==
  IF s = <<>> THEN <<>>
  ELSE IF startswith(s, old)
       THEN new \o replace(SubSeq(s, Len(old) + 1, Len(s)), old, new)
       ELSE <<Head(s)>> \o replace(Tail(s), old, new)

\* seq[a:b] of Python, 0 <= a <= b
slice(s, a, b) ==
  LET hi == IF b < Len(s) THEN b ELSE Len(s)
  IN  IF a >= hi THEN <<>> ELSE SubSeq(s, a + 1, hi)

\* math.ceil(n / d) for a natural n and a positive d
ceil(n, d) == (n + d - 1) \div d

(* ------------------------- combination generator ----------------------- *)
\* itertools.product(*ranges): for each value of the first range in turn, every
\* tuple of the product of the other ranges
RECURSIVE prefixed(_, _)
prefixed(first, rest) ==
  IF first = <<>> THEN <<>>
  ELSE [j \in 1..Len(rest) |-> <<Head(first)>> \o rest[j]]
         \o prefixed(Tail(first), rest)

RECURSIVE product(_)
product(ranges) ==
  IF ranges = <<>> THEN << <<>> >>
  ELSE prefixed(Head(ranges), product(Tail(ranges)))

all_combinations_short(hp, running_mode) ==
  LET combinations == product(<<hp.filter_num1, hp.filter_num2, hp.num_of_dense,
                                hp.dense_len1, hp.dense_len2>>)
  IN  IF running_mode = "full" THEN combinations
      ELSE slice(combinations, 0, TestModeLimit - 1)

all_combinations(hp, running_mode) ==
  LET combinations == product(<<hp.filter_num1, hp.filter_num2, hp.num_of_dense,
                                hp.dense_len1, hp.dense_len2>>)
  IN  IF running_mode = "full" THEN combinations
      ELSE slice(combinations, 0, TestModeLimit)

\* the model object built from one combination; id is the object's identity
\* (its place in the order of construction)
model_builder(combin, id) == [id |-> id, combo |-> combin]

(* ------------------------------ partitioner ---------------------------- *)
partitions_split_gap(models, partition_length) ==
  IF Len(models) <= partition_length THEN models
  ELSE [x \in 1..ceil(Len(models), partition_length) |->
          slice(models, (x - 1) * partition_length + 1, x * partition_length)]

\* a flat list of models when they fit one partition, else a list of slices
partitions_split(models, partition_length) ==
  IF Len(models) <= partition_length THEN models
  ELSE [x \in 1..ceil(Len(models), partition_length) |->
          slice(models, (x - 1) * partition_length, x * partition_length)]

\* dict.update({key: value}) on a dictionary kept in insertion order
dict_update(d, key, value) ==
  IF \E k \in 1..Len(d) : d[k].key = key
  THEN [k \in 1..Len(d) |-> IF d[k].key = key THEN [key |-> key, value |-> value]
                            ELSE d[k]]
  ELSE Append(d, [key |-> key, value |-> value])

RECURSIVE dict_fill(_, _, _)
dict_fill(parts, n, partition_length) ==
  IF n = 0 THEN <<>>
  ELSE dict_update(dict_fill(parts, n - 1, partition_length),
                   S_models \o str(n * partition_length), parts[n])

dict_partitions(models, partition_length) ==
  IF Len(models) <= partition_length
  THEN <<[key |-> S_models \o str(partition_length),
          value |-> partitions_split(models, partition_length)]>>
  ELSE LET parts == partitions_split(models, partition_length)
       IN  dict_fill(parts, Len(parts), partition_length)

get_partition_number(models) ==
  LET d == dict_partitions(models, DefaultPartitionLength)
  IN  [k \in 1..Len(d) |-> int(split(d[k].key, "s")[2])]

(* --------------------------- reporter and guard ------------------------ *)
\* one row per entry of results["loss"], epochs numbered from 1
reporting(model, results) ==
  [e \in 1..Len(results.loss) |->
     [models |-> model, epochs |-> e, loss |-> results.loss[e]]]

StampStr(stamp) == str(stamp)
ReportName_unkeyed(key, stamp) == S_report \o <<"_">> \o StampStr(stamp) \o S_csv
ReportName(key, stamp) == S_report \o str(key) \o <<"_">> \o StampStr(stamp) \o S_csv
DirName(key, stamp) == S_saved_models \o str(key) \o <<"_">> \o StampStr(stamp)

\* os.listdir(): the names of the report files and of the model directories
listdir(ds, rs) ==
  {ReportName(r.key, r.stamp) : r \in rs} \cup {DirName(d.key, d.stamp) : d \in ds}

existence_check_exact(item, names) ==
  LET file_name == replace(item, S_models, S_report)
  IN  \E file \in names : file = file_name

existence_check(item, names) ==
  LET file_name == replace(item, S_models, S_report)
  IN  \E file \in names : startswith(file, file_name)

(* --------------------------- series splitting -------------------------- *)
\* TimeSeriesSplit(n_splits).split(data) on n_samples rows: index ranges
\* [lo, hi) of the training prefix and of the test slice that follows it
TimeSeriesSplit(n_splits, n_samples) ==
  LET test_size == n_samples \div (n_splits + 1)
  IN  [k \in 1..n_splits |->
         LET test_start == n_samples - (n_splits - k + 1) * test_size
         IN  [train |-> <<0, test_start>>,
              test  |-> <<test_start, test_start + test_size>>]]

RangeLen(r) == r[2] - r[1]

(* -------------------------------- state -------------------------------- *)
VARIABLES
  \* the Model_Development object
  hyper_params, mode, all_models, built,
  \* the environment: the clock and the working directory
  clock, dirs, saved, reports,
  \* the running entry point: its position and its locals
  pc, partitions, partition_numb, now, numb_ind, report, series_cv, ind, i,
  history, partition, partition_num,
  \* the exception that ended the last entry point, "" when it returned
  raised,
  \* bookkeeping of the behaviour: invocations made, fit failures injected
  runs, failures,
  \* observation of the running entry point, of the one before it, of the
  \* last fit call, and of a direct call of dict_partitions
  run, lastRun, lastFit, ret

object == <<hyper_params, mode, all_models, built>>
disk   == <<dirs, saved, reports>>
frame  == <<partitions, partition_numb, now, numb_ind, report, series_cv, ind, i,
            history, partition, partition_num>>
vars   == <<object, clock, disk, pc, frame, raised, runs, failures,
            run, lastRun, lastFit, ret>>

\* what is kept of the entry point that ran before
NoPrev == [kind |-> "none", built |-> FALSE, outcome |-> "none", key |-> 0,
           skipped |-> {}, trained |-> {}]
Brief(r) == [kind |-> r.kind, built |-> r.built, outcome |-> r.outcome,
             key |-> r.key, skipped |-> r.skipped, trained |-> r.trained]
\* the last step auto_grid_cv took: its guard on a batch (skip tells the
\* answer), mkdir, a fit call, a save, or the writing of the report
Event(type, key, position, f, skip) ==
  [type |-> type, key |-> key, ind |-> position, fold |-> f, skip |-> skip]
NoEvent == Event("none", 0, 0, 0, FALSE)
NoRun == [kind |-> "none", built |-> FALSE, L |-> 0, fits |-> 0, mkdirs |-> 0,
          csvs |-> 0, visited |-> <<>>, skipped |-> {}, started |-> {},
          trained |-> {}, outcome |-> "none", key |-> 0, batches |-> <<>>,
          prev |-> NoPrev, event |-> NoEvent]
NoFit == [kind |-> "none"]
NoHistory == [history |-> [loss |-> <<>>]]
NoRet == [fn |-> "none"]

\* the ranges of a configuration, by their lengths
Range(base, n) == [j \in 1..n |-> base * j]
HyperParams(lens) ==
  [filter_num1 |-> Range(4, lens[1]), filter_num2 |-> Range(2, lens[2]),
   num_of_dense |-> Range(1, lens[3]), dense_len1 |-> Range(16, lens[4]),
   dense_len2 |-> Range(16, lens[5])]

\* configurations of the orchestration runs: two combinations in one batch,
\* 64 combinations in two batches, and an empty range
RunConfigs == { <<2, 1, 1, 1, 1>>, <<4, 4, 2, 2, 1>>, <<2, 0, 1, 1, 1>> }
\* configurations of the pure-function specification
PureConfigs == { <<a, b, c, d, e>> : a \in 0..MaxRange, b \in 0..MaxRange,
                 c \in 0..MaxRange, d \in 0..MaxRange, e \in 0..MaxRange }

\* the running modes a caller may pass; "fast" stands for any other string
RunningModes == {"full", "test", "fast"}
ValidMode_any(running_mode) == TRUE
\* line 52: the test of the running mode
ValidMode(running_mode) == running_mode \in {"test", "full"}

\* the call Model_Development(input_data, params, hyper_params, running_mode)
\* about to run: nothing is built and nothing is on disk. all_models is ""
\* until build_all_models sets it; len("") = 0 and list("") = [], so the empty
\* sequence stands for it
Constructed(lens, running_mode) ==
  /\ hyper_params = HyperParams(lens)
  /\ mode = running_mode
  /\ all_models = <<>>
  /\ built = FALSE
  /\ dirs = {} /\ saved = {} /\ reports = {}
  /\ pc = "new"
  /\ partitions = <<>> /\ partition_numb = <<>> /\ now = 0 /\ numb_ind = -1
  /\ report = <<>> /\ series_cv = <<>> /\ ind = 0 /\ i = 0
  /\ history = NoHistory /\ partition = <<>> /\ partition_num = 0
  /\ raised = ""
  /\ runs = 0 /\ failures = 0
  /\ run = NoRun /\ lastRun = NoRun /\ lastFit = NoFit /\ ret = NoRet

Init ==
  /\ clock \in 0..(TicksPerSecond - 1)
  /\ \E lens \in RunConfigs, m \in RunningModes : Constructed(lens, m)

InitPure ==
  /\ clock = 0
  /\ \E lens \in PureConfigs, m \in RunningModes : Constructed(lens, m)

(* ------------------------------- __init__ ------------------------------ *)
\* lines 45-54: the mode is valid and the object is handed to the caller
Model_Development ==
  /\ pc = "new" /\ ValidMode(mode)
  /\ all_models' = <<>>
  /\ pc' = "idle"
  /\ UNCHANGED <<hyper_params, mode, built, clock, disk, frame, raised, runs,
                 failures, run, lastRun, lastFit, ret>>

\* lines 52-53: ValueError; no object exists, so no method can be called
Model_Development_raise ==
  /\ pc = "new" /\ ~ValidMode(mode)
  /\ raised' = "ValueError"
  /\ pc' = "failed"
  /\ UNCHANGED <<object, clock, disk, frame, runs, failures, run, lastRun,
                 lastFit, ret>>

(* --------------------------- build_all_models -------------------------- *)
build_all_models ==
  /\ pc = "idle" /\ ~built /\ ret = NoRet
  /\ LET combinations == all_combinations(hyper_params, mode)
     IN  all_models' = [k \in 1..Len(combinations) |->
                          model_builder(combinations[k], k)]
  /\ built' = TRUE
  /\ UNCHANGED <<hyper_params, mode, clock, disk, pc, frame, raised, runs,
                 failures, run, lastRun, lastFit, ret>>

\* a direct call of dict_partitions(partition_length)
call_dict_partitions ==
  /\ pc = "idle" /\ ret = NoRet
  /\ \E L \in 1..MaxPartLen :
       ret' = [fn |-> "dict_partitions", partition_length |-> L,
               result |-> dict_partitions(all_models, L)]
  /\ UNCHANGED <<object, clock, disk, pc, frame, raised, runs, failures,
                 run, lastRun, lastFit>>

(* ------------------------- leaving an entry point ---------------------- *)
\* the frame is dropped; what the run did is kept for the next one to compare
Leave(outcome, exc, key) ==
  /\ pc' = "idle"
  /\ partitions' = <<>> /\ partition_numb' = <<>> /\ now' = 0 /\ numb_ind' = -1
  /\ report' = <<>> /\ series_cv' = <<>> /\ ind' = 0 /\ i' = 0
  /\ history' = NoHistory /\ partition' = <<>> /\ partition_num' = 0
  /\ raised' = exc
  /\ lastRun' = [run EXCEPT !.outcome = outcome, !.key = key]
  /\ run' = NoRun
  /\ lastFit' = NoFit

\* model.fit(x = data[:len(train)], validation_data = data[:len(test)]) on
\* fold f: the history it returns, one loss per epoch
fit(model, f) ==
  [history |-> [loss |-> [e \in 1..Epochs |-> <<model.id, f, e>>]]]

FitCall(kind, key, model, position, f, cv) ==
  [kind |-> kind, key |-> key, id |-> model.id, ind |-> position, fold |-> f,
   x |-> <<0, RangeLen(cv[f + 1].train)>>,
   val |-> <<0, RangeLen(cv[f + 1].test)>>]

\* save_model / to_csv replace a file of the same name
WriteModel(files, f) ==
  {g \in files : ~(g.key = f.key /\ g.stamp = f.stamp /\ g.index = f.index)}
    \cup {f}
WriteReport(files, f) ==
  {g \in files : ~(g.key = f.key /\ g.stamp = f.stamp)} \cup {f}

(* ------------------------------ auto_grid_cv --------------------------- *)
\* strftime("%Y%m%d_%H%M%S") of the clock: the sub-second part is dropped
Now(t) == t \div TicksPerSecond

\* lines 207-212: the locals set before the loop over the partitions
auto_grid_cv ==
  /\ pc = "idle" /\ runs < MaxRuns
  /\ runs' = runs + 1
  /\ clock' = clock + 1
  /\ partitions' = dict_partitions(all_models, DefaultPartitionLength)
  /\ partition_numb' = get_partition_number(all_models)
  /\ now' = Now(clock')
  /\ numb_ind' = -1
  /\ report' = <<>>
  /\ series_cv' = TimeSeriesSplit(Folds, NSamples)
  /\ pc' = "auto_for"
  /\ raised' = ""
  /\ run' = [NoRun EXCEPT !.kind = "auto", !.built = built,
                          !.L = DefaultPartitionLength,
                          !.batches = get_partition_number(all_models),
                          !.prev = Brief(lastRun),
                          !.event = Event("enter", 0, 0, 0, FALSE)]
  /\ UNCHANGED <<object, disk, ind, i, history, partition, partition_num,
                 failures, lastRun, lastFit, ret>>

\* the loop is exhausted: the function returns
auto_return ==
  /\ pc = "auto_for" /\ numb_ind + 1 >= Len(partitions)
  /\ Leave("completed", "", 0)
  /\ UNCHANGED <<object, clock, disk, runs, failures, ret>>

auto_skip_clears ==
  /\ pc = "auto_for" /\ numb_ind + 1 < Len(partitions)
  /\ existence_check(partitions[numb_ind + 2].key, listdir(dirs, reports))
  /\ numb_ind' = numb_ind + 1
  /\ run' = [run EXCEPT !.visited = Append(@, partition_numb[numb_ind + 2]),
                        !.skipped = @ \cup {partition_numb[numb_ind + 2]},
                        !.event = Event("guard", partition_numb[numb_ind + 2],
                                        0, 0, TRUE)]
  /\ report' = <<>>
  /\ UNCHANGED <<object, clock, disk, pc, partitions, partition_numb, now,
                 series_cv, ind, i, history, partition, partition_num,
                 raised, runs, failures, lastRun, lastFit, ret>>

\* lines 215-217: the report already exists
auto_skip ==
  /\ pc = "auto_for" /\ numb_ind + 1 < Len(partitions)
  /\ existence_check(partitions[numb_ind + 2].key, listdir(dirs, reports))
  /\ numb_ind' = numb_ind + 1
  /\ run' = [run EXCEPT !.visited = Append(@, partition_numb[numb_ind + 2]),
                        !.skipped = @ \cup {partition_numb[numb_ind + 2]},
                        !.event = Event("guard", partition_numb[numb_ind + 2],
                                        0, 0, TRUE)]
  /\ UNCHANGED <<object, clock, disk, pc, partitions, partition_numb, now,
                 report, series_cv, ind, i, history, partition, partition_num,
                 raised, runs, failures, lastRun, lastFit, ret>>

\* lines 215-219: new report
auto_new ==
  /\ pc = "auto_for" /\ numb_ind + 1 < Len(partitions)
  /\ ~existence_check(partitions[numb_ind + 2].key, listdir(dirs, reports))
  /\ numb_ind' = numb_ind + 1
  /\ pc' = "auto_mkdir"
  /\ run' = [run EXCEPT !.visited = Append(@, partition_numb[numb_ind + 2]),
                        !.event = Event("guard", partition_numb[numb_ind + 2],
                                        0, 0, FALSE)]
  /\ UNCHANGED <<object, clock, disk, partitions, partition_numb, now,
                 report, series_cv, ind, i, history, partition, partition_num,
                 raised, runs, failures, lastRun, lastFit, ret>>

\* line 220: os.mkdir of the batch's directory
auto_mkdir ==
  /\ pc = "auto_mkdir"
  /\ DirName(partition_numb[numb_ind + 1], now) \notin listdir(dirs, reports)
  /\ dirs' = dirs \cup {[key |-> partition_numb[numb_ind + 1], stamp |-> now]}
  /\ ind' = 0 /\ i' = 0
  /\ pc' = IF Len(partitions[numb_ind + 1].value) = 0 THEN "auto_csv"
           ELSE "auto_fit"
  /\ run' = [run EXCEPT !.mkdirs = @ + 1,
                        !.started = @ \cup {partition_numb[numb_ind + 1]},
                        !.event = Event("mkdir", partition_numb[numb_ind + 1],
                                        0, 0, FALSE)]
  /\ UNCHANGED <<object, clock, saved, reports, partitions, partition_numb, now,
                 numb_ind, report, series_cv, history, partition, partition_num,
                 raised, runs, failures, lastRun, lastFit, ret>>

\* line 220: the directory exists, FileExistsError leaves the function
auto_mkdir_raise ==
  /\ pc = "auto_mkdir"
  /\ DirName(partition_numb[numb_ind + 1], now) \in listdir(dirs, reports)
  /\ Leave("mkdir_failed", "FileExistsError", partition_numb[numb_ind + 1])
  /\ UNCHANGED <<object, clock, disk, runs, failures, ret>>

auto_fit_keep_first ==
  /\ pc = "auto_fit"
  /\ LET model == partitions[numb_ind + 1].value[ind + 1]
     IN  /\ history' = IF i = 0 THEN fit(model, i) ELSE history
         /\ lastFit' = FitCall("auto", partition_numb[numb_ind + 1], model, ind,
                               i, series_cv)
  /\ i' = i + 1
  /\ pc' = IF i + 1 = Len(series_cv) THEN "auto_save" ELSE "auto_fit"
  /\ run' = [run EXCEPT !.fits = @ + 1,
                        !.event = Event("fit", partition_numb[numb_ind + 1],
                                        ind, i, FALSE)]
  /\ UNCHANGED <<object, clock, disk, partitions, partition_numb, now, numb_ind,
                 report, series_cv, ind, partition, partition_num, raised, runs,
                 failures, lastRun, ret>>

\* lines 222-231: one fit call, fold i of the model at place ind of the batch
auto_fit ==
  /\ pc = "auto_fit"
  /\ LET model == partitions[numb_ind + 1].value[ind + 1]
     IN  /\ history' = fit(model, i)
         /\ lastFit' = FitCall("auto", partition_numb[numb_ind + 1], model, ind,
                               i, series_cv)
  /\ i' = i + 1
  /\ pc' = IF i + 1 = Len(series_cv) THEN "auto_save" ELSE "auto_fit"
  /\ run' = [run EXCEPT !.fits = @ + 1,
                        !.event = Event("fit", partition_numb[numb_ind + 1],
                                        ind, i, FALSE)]
  /\ UNCHANGED <<object, clock, disk, partitions, partition_numb, now, numb_ind,
                 report, series_cv, ind, partition, partition_num, raised, runs,
                 failures, lastRun, ret>>

\* the fit call raises: nothing catches it
auto_fit_raise ==
  /\ pc = "auto_fit" /\ failures < MaxFailures /\ ind < MaxFailInd
  /\ failures' = failures + 1
  /\ Leave("fit_failed", "fit", partition_numb[numb_ind + 1])
  /\ UNCHANGED <<object, clock, disk, runs, ret>>

auto_save_eager ==
  /\ pc = "auto_save"
  /\ LET model == partitions[numb_ind + 1].value[ind + 1]
         index == ind + partition_numb[numb_ind + 1] - IndexOffset
     IN  /\ report' = report \o reporting(index, history.history)
         /\ saved' = WriteModel(saved,
                       [key |-> partition_numb[numb_ind + 1], stamp |-> now,
                        index |-> index, id |-> model.id, ind |-> ind,
                        L |-> run.L])
  /\ ind' = ind + 1 /\ i' = 0
  /\ pc' = "auto_csv"
  /\ run' = [run EXCEPT !.event = Event("save", partition_numb[numb_ind + 1],
                                        ind, 0, FALSE)]
  /\ UNCHANGED <<object, clock, dirs, reports, partitions, partition_numb, now,
                 numb_ind, series_cv, history, partition, partition_num, raised,
                 runs, failures, lastRun, lastFit, ret>>

\* lines 232-234: the model's rows are appended and the model is saved
auto_save ==
  /\ pc = "auto_save"
  /\ LET model == partitions[numb_ind + 1].value[ind + 1]
         index == ind + partition_numb[numb_ind + 1] - IndexOffset
     IN  /\ report' = report \o reporting(index, history.history)
         /\ saved' = WriteModel(saved,
                       [key |-> partition_numb[numb_ind + 1], stamp |-> now,
                        index |-> index, id |-> model.id, ind |-> ind,
                        L |-> run.L])
  /\ ind' = ind + 1 /\ i' = 0
  /\ pc' = IF ind + 1 = Len(partitions[numb_ind + 1].value) THEN "auto_csv"
           ELSE "auto_fit"
  /\ run' = [run EXCEPT !.event = Event("save", partition_numb[numb_ind + 1],
                                        ind, 0, FALSE)]
  /\ UNCHANGED <<object, clock, dirs, reports, partitions, partition_numb, now,
                 numb_ind, series_cv, history, partition, partition_num, raised,
                 runs, failures, lastRun, lastFit, ret>>

\* line 235: the accumulated table is written as the batch's report
auto_to_csv ==
  /\ pc = "auto_csv"
  /\ reports' = WriteReport(reports,
                  [key |-> partition_numb[numb_ind + 1], stamp |-> now,
                   rows |-> report, by |-> "auto",
                   batch |-> {partitions[numb_ind + 1].value[k].id :
                                k \in 1..Len(partitions[numb_ind + 1].value)}])
  /\ pc' = "auto_for"
  /\ run' = [run EXCEPT !.csvs = @ + 1,
                        !.trained = @ \cup {partition_numb[numb_ind + 1]},
                        !.event = Event("csv", partition_numb[numb_ind + 1],
                                        0, 0, FALSE)]
  /\ UNCHANGED <<object, clock, dirs, saved, partitions, partition_numb, now,
                 numb_ind, report, series_cv, ind, i, history, partition,
                 partition_num, raised, runs, failures, lastRun, lastFit, ret>>

(* ----------------------------- manual_grid_cv -------------------------- *)
\* the batches a caller can hand to manual_grid_cv: an entry of
\* dict_partitions(L) with the number of its key
ManualArgs(L) ==
  LET d == dict_partitions(all_models, L)
  IN  {[partition |-> d[k].value, partition_num |-> int(split(d[k].key, "s")[2]),
        L |-> L] : k \in 1..Len(d)}
ManualLengths == {DefaultPartitionLength, OtherPartitionLength}

\* lines 243-247, the directory is new
manual_grid_cv ==
  /\ pc = "idle" /\ runs < MaxRuns
  /\ \E L \in ManualLengths : \E a \in ManualArgs(L) :
       /\ DirName(a.partition_num, Now(clock + 1)) \notin listdir(dirs, reports)
       /\ partition' = a.partition
       /\ partition_num' = a.partition_num
       /\ dirs' = dirs \cup {[key |-> a.partition_num, stamp |-> Now(clock + 1)]}
       /\ pc' = IF Len(a.partition) = 0 THEN "manual_csv" ELSE "manual_fit"
       /\ run' = [NoRun EXCEPT !.kind = "manual", !.built = built, !.L = a.L,
                               !.mkdirs = 1, !.started = {a.partition_num},
                               !.visited = <<a.partition_num>>,
                               !.prev = Brief(lastRun)]
  /\ runs' = runs + 1
  /\ clock' = clock + 1
  /\ now' = Now(clock')
  /\ report' = <<>>
  /\ series_cv' = TimeSeriesSplit(Folds, NSamples)
  /\ ind' = 0 /\ i' = 0
  /\ raised' = ""
  /\ UNCHANGED <<object, saved, reports, partitions, partition_numb, numb_ind,
                 history, failures, lastRun, lastFit, ret>>

\* line 245: the directory exists, FileExistsError leaves the function
manual_mkdir_raise ==
  /\ pc = "idle" /\ runs < MaxRuns
  /\ \E L \in ManualLengths : \E a \in ManualArgs(L) :
       /\ DirName(a.partition_num, Now(clock + 1)) \in listdir(dirs, reports)
       /\ lastRun' = [NoRun EXCEPT !.kind = "manual", !.built = built, !.L = a.L,
                                   !.visited = <<a.partition_num>>,
                                   !.outcome = "mkdir_failed",
                                   !.key = a.partition_num,
                                   !.prev = Brief(lastRun)]
  /\ runs' = runs + 1
  /\ clock' = clock + 1
  /\ raised' = "FileExistsError"
  /\ UNCHANGED <<object, disk, pc, frame, failures, run, lastFit, ret>>

\* lines 250-259: one fit call
manual_fit ==
  /\ pc = "manual_fit"
  /\ LET model == partition[ind + 1]
     IN  /\ history' = fit(model, i)
         /\ lastFit' = FitCall("manual", partition_num, model, ind, i, series_cv)
  /\ i' = i + 1
  /\ pc' = IF i + 1 = Len(series_cv) THEN "manual_save" ELSE "manual_fit"
  /\ run' = [run EXCEPT !.fits = @ + 1]
  /\ UNCHANGED <<object, clock, disk, partitions, partition_numb, now, numb_ind,
                 report, series_cv, ind, partition, partition_num, raised, runs,
                 failures, lastRun, ret>>

manual_fit_raise ==
  /\ pc = "manual_fit" /\ failures < MaxFailures /\ ind < MaxFailInd
  /\ failures' = failures + 1
  /\ Leave("fit_failed", "fit", partition_num)
  /\ UNCHANGED <<object, clock, disk, runs, ret>>

\* lines 260-262
manual_save ==
  /\ pc = "manual_save"
  /\ LET model == partition[ind + 1]
         index == ind + partition_num - IndexOffset
     IN  /\ report' = report \o reporting(index, history.history)
         /\ saved' = WriteModel(saved,
                       [key |-> partition_num, stamp |-> now, index |-> index,
                        id |-> model.id, ind |-> ind, L |-> run.L])
  /\ ind' = ind + 1 /\ i' = 0
  /\ pc' = IF ind + 1 = Len(partition) THEN "manual_csv" ELSE "manual_fit"
  /\ UNCHANGED <<object, clock, dirs, reports, partitions, partition_numb, now,
                 numb_ind, series_cv, history, partition, partition_num, raised,
                 runs, failures, run, lastRun, lastFit, ret>>

\* line 263: the report is written and the function returns
manual_to_csv ==
  /\ pc = "manual_csv"
  /\ reports' = WriteReport(reports,
                  [key |-> partition_num, stamp |-> now, rows |-> report,
                   by |-> "manual",
                   batch |-> {partition[k].id : k \in 1..Len(partition)}])
  /\ Leave("completed", "", 0)
  /\ UNCHANGED <<object, clock, dirs, saved, runs, failures, ret>>

(* ---------------------------- specifications --------------------------- *)
Next ==
  \/ Model_Development \/ Model_Development_raise
  \/ build_all_models
  \/ auto_grid_cv \/ auto_return \/ auto_skip \/ auto_new
  \/ auto_mkdir \/ auto_mkdir_raise
  \/ auto_fit \/ auto_fit_raise \/ auto_save \/ auto_to_csv
  \/ manual_grid_cv \/ manual_mkdir_raise
  \/ manual_fit \/ manual_fit_raise \/ manual_save \/ manual_to_csv

Spec == Init /\ [][Next]_vars

NextPure ==
  \/ Model_Development \/ Model_Development_raise
  \/ build_all_models \/ call_dict_partitions

SpecPure == InitPure /\ [][NextPure]_vars

(* ================================ claims =============================== *)
Min(a, b) == IF a < b THEN a ELSE b

\* the five ranges of the configuration and their lengths
N1 == Len(hyper_params.filter_num1)
N2 == Len(hyper_params.filter_num2)
N3 == Len(hyper_params.num_of_dense)
N4 == Len(hyper_params.dense_len1)
N5 == Len(hyper_params.dense_len2)
NonEmptyRanges == N1 > 0 /\ N2 > 0 /\ N3 > 0 /\ N4 > 0 /\ N5 > 0
EmptyProduct == ~NonEmptyRanges
ProductLen == N1 * N2 * N3 * N4 * N5

\* the k-th tuple (from 0) of five nested loops, filter_num1 outermost
NestedAt(k) ==
  <<hyper_params.filter_num1[(k \div (N2 * N3 * N4 * N5)) + 1],
    hyper_params.filter_num2[((k \div (N3 * N4 * N5)) % N2) + 1],
    hyper_params.num_of_dense[((k \div (N4 * N5)) % N3) + 1],
    hyper_params.dense_len1[((k \div N5) % N4) + 1],
    hyper_params.dense_len2[(k % N5) + 1]>>

\* C10: for non-empty ranges the combinations the models are built from are
\* the Cartesian product in nested-iteration order, filter_num1 outermost and
\* dense_len2 innermost; all of it in full mode, and exactly its first
\* min(10, product) elements in test mode.
C10_CombinationsNested ==
  (built /\ NonEmptyRanges) =>
    /\ Len(all_models) = IF mode = "full" THEN ProductLen
                         ELSE Min(10, ProductLen)
    /\ \A k \in 1..Len(all_models) : all_models[k].combo = NestedAt(k - 1)

C10_Witness ==
  /\ built /\ NonEmptyRanges /\ mode = "test"
  /\ ProductLen > 10 /\ Len(all_models) = 10
  /\ all_models[10].combo = NestedAt(9)

RECURSIVE Flatten(_)
Flatten(seqs) == IF seqs = <<>> THEN <<>> ELSE Head(seqs) \o Flatten(Tail(seqs))

Ids(ms) == {ms[k].id : k \in 1..Len(ms)}

\* C5: the batches of dict_partitions(L), in insertion order, are contiguous
\* slices of the model sequence, pairwise disjoint, in the original order, and
\* concatenate to the sequence; one batch keyed L when n <= L, otherwise
\* ceil(n/L) batches, batch b (from 0) keyed (b+1)*L, each of exactly L models
\* except possibly the last.
C5_PartitionsCoverInOrder ==
  ret.fn = "dict_partitions" =>
    LET L == ret.partition_length
        d == ret.result
        n == Len(all_models)
    IN  IF n <= L
        THEN /\ Len(d) = 1
             /\ d[1].key = S_models \o str(L)
             /\ d[1].value = all_models
        ELSE /\ Len(d) * L >= n /\ (Len(d) - 1) * L < n
             /\ \A b \in 1..Len(d) :
                  /\ d[b].key = S_models \o str(b * L)
                  /\ d[b].value = SubSeq(all_models, (b - 1) * L + 1, Min(b * L, n))
                  /\ b < Len(d) => Len(d[b].value) = L
             /\ Len(d[Len(d)].value) \in 1..L
             /\ \A b, c \in 1..Len(d) :
                  b # c => Ids(d[b].value) \cap Ids(d[c].value) = {}
             /\ Flatten([b \in 1..Len(d) |-> d[b].value]) = all_models

C5_Witness ==
  /\ ret.fn = "dict_partitions"
  /\ Len(all_models) > ret.partition_length
  /\ Len(all_models) % ret.partition_length # 0
  /\ Len(ret.result) >= 3
  /\ Len(ret.result[Len(ret.result)].value) < ret.partition_length

(* ---------------- the resume guard across invocations ------------------ *)
\* an auto_grid_cv invocation that directly follows one which returned, on the
\* same models
Resumed(r) ==
  /\ r.kind = "auto" /\ r.prev.kind = "auto"
  /\ r.prev.outcome = "completed" /\ r.prev.built = r.built

NoWork(r) ==
  /\ r.fits = 0 /\ r.mkdirs = 0 /\ r.csvs = 0 /\ r.started = {}
  /\ \A k \in 1..Len(r.visited) : r.visited[k] \in r.skipped

\* C1: an auto_grid_cv run that follows a completed auto_grid_cv run on the
\* same models takes the "already exists" branch for every batch, makes no
\* fit call, creates no directory and writes no report, and returns.
C1_ResumeIdempotent ==
  /\ Resumed(run) => NoWork(run) /\ pc = "auto_for"
  /\ Resumed(lastRun) =>
       /\ NoWork(lastRun) /\ lastRun.outcome = "completed"
       /\ lastRun.visited = lastRun.batches

C1_Witness ==
  /\ pc = "idle" /\ Resumed(lastRun) /\ lastRun.outcome = "completed"
  /\ lastRun.prev.trained = {60, 120}
  /\ lastRun.skipped = {60, 120}

ReportedKey(K) == \E r \in reports : r.key = K

\* C2 as stated: once a report of batch K is on disk, no fit call of either
\* entry point is made for batch K.
C2_NoFitOnceReported ==
  [][(auto_fit \/ manual_fit) => ~ReportedKey(lastFit'.key)]_vars

\* C2 as amended: once a report of batch K is on disk, auto_grid_cv makes no
\* fit call for batch K; manual_grid_cv has no guard.
C2_AutoNoFitOnceReported ==
  [][auto_fit => ~ReportedKey(lastFit'.key)]_vars

C2_Witness ==
  /\ run.kind = "auto" /\ run.skipped = {60} /\ ReportedKey(60)
  /\ pc = "auto_fit" /\ lastFit.kind = "auto" /\ lastFit.key = 120

\* C3: for every batch key N of the partitioner, existence_check("models<N>")
\* is true exactly when a report file of batch N itself is in the directory.
C3_GuardExactPerKey ==
  pc = "auto_for" =>
    \A k \in 1..Len(partitions) :
      existence_check(partitions[k].key, listdir(dirs, reports))
        <=> ReportedKey(partition_numb[k])

\* C4: a report written by auto_grid_cv for batch K holds rows of the models
\* of batch K only, one row per epoch of the reported history of each.
C4_ReportOfBatchOnly ==
  \A r \in reports :
    r.by = "auto" =>
      /\ \A k \in 1..Len(r.rows) : r.rows[k].loss[1] \in r.batch
      /\ \A m \in r.batch : \A e \in 1..Epochs :
           Cardinality({k \in 1..Len(r.rows) :
                          r.rows[k].loss[1] = m /\ r.rows[k].epochs = e}) = 1

\* C6: the index of a saved model (and of its report rows) is i + K - L for
\* place i in the batch keyed K of partition length L, and it is the model's
\* place in the whole generated sequence, hence non-negative and unique.
C6_ModelIndexIsPosition ==
  /\ \A f \in saved :
       /\ f.index = f.ind + f.key - f.L
       /\ f.index = f.id - 1
       /\ f.index >= 0
  /\ \A f, g \in saved :
       (f.key = g.key /\ f.stamp = g.stamp /\ f.index = g.index) => f.id = g.id

\* C7: in every fit call of fold i, the training data is the prefix [0, t_i)
\* and the validation data is the slice starting at t_i, so the two index
\* ranges do not overlap.
C7_ValidationFollowsTraining ==
  lastFit.kind # "none" =>
    /\ lastFit.x = series_cv[lastFit.fold + 1].train
    /\ lastFit.val = series_cv[lastFit.fold + 1].test
    /\ lastFit.val[1] >= lastFit.x[2]

\* an auto_grid_cv invocation that directly follows one which a fit call ended,
\* on the same models
AfterFitFailure(r) ==
  /\ r.kind = "auto" /\ r.prev.kind = "auto"
  /\ r.prev.outcome = "fit_failed" /\ r.prev.built = r.built

\* what C8 says of the run a failing fit ended
FailedRunLeaves ==
  (lastRun.kind = "auto" /\ lastRun.outcome = "fit_failed") =>
    /\ lastRun.key \notin lastRun.trained
    /\ lastRun.visited[Len(lastRun.visited)] = lastRun.key
    /\ \A K \in lastRun.trained : ReportedKey(K)

\* what C8 says of the guard in the next run
NextRunGuards(r) ==
  /\ \A k \in 1..Len(r.visited) :
       r.visited[k] \in (r.prev.trained \cup r.prev.skipped)
         => r.visited[k] \in r.skipped
  /\ r.prev.key \notin r.skipped

\* the first fit call of the next run is fold 0 of the first model of K
RetrainedFromFirstModel ==
  (AfterFitFailure(run) /\ run.fits = 1) =>
    (lastFit.key = run.prev.key /\ lastFit.ind = 0 /\ lastFit.fold = 0)

\* C8 as stated: a failing fit in batch K ends the run with no report of K and
\* no later batch started, the earlier reports in place; the next auto_grid_cv
\* run skips every earlier batch, does not skip K, and trains K again from its
\* first model.
C8_FailedBatchRetrained ==
  /\ FailedRunLeaves
  /\ \A r \in {run, lastRun} :
       AfterFitFailure(r) =>
         /\ NextRunGuards(r)
         /\ (r.outcome # "none" \/ r.fits > 0) => r.prev.key \in r.started
  /\ RetrainedFromFirstModel

\* the same with the collision of directory names set apart: when the next
\* run's stamp equals the failed run's, K's directory exists, os.mkdir raises
\* and the run ends at K with no fit call; in every other case K is trained
\* again. (The collision is the only way C8 fails.)
FailedBatchRetrainedUnlessDirExists ==
  /\ FailedRunLeaves
  /\ \A r \in {run, lastRun} :
       AfterFitFailure(r) =>
         /\ NextRunGuards(r)
         /\ (r.outcome # "none" \/ r.fits > 0) =>
              \/ r.prev.key \in r.started
              \/ /\ r.outcome = "mkdir_failed" /\ r.key = r.prev.key
                 /\ r.fits = 0 /\ r.trained = {}
  /\ RetrainedFromFirstModel

\* C9: with an empty range, an auto_grid_cv run that follows build_all_models
\* creates no saved_models directory and writes no report (combination
\* generation is claimed to fail before).
C9_EmptyProductLeavesNothing ==
  \A r \in {run, lastRun} :
    (EmptyProduct /\ r.kind = "auto" /\ r.built) => (r.mkdirs = 0 /\ r.csvs = 0)

(* ------------------------------ construction --------------------------- *)
\* C11: with a running mode other than "full" or "test" the constructor ends
\* in ValueError, and no combination is generated, no model built and no
\* directory or file created, then or later.
C11_InvalidModeFailsFast ==
  (mode # "full" /\ mode # "test") =>
    /\ pc \in {"new", "failed"}
    /\ pc = "failed" => raised = "ValueError"
    /\ ~built /\ all_models = <<>> /\ ret = NoRet
    /\ dirs = {} /\ saved = {} /\ reports = {}
    /\ runs = 0 /\ run = NoRun /\ lastRun = NoRun

C11_Witness ==
  /\ mode = "fast" /\ pc = "failed" /\ raised = "ValueError"
  /\ hyper_params.filter_num1 # <<>>

\* ---------------------------------------------------------------------
\* C12
\* the batch auto_grid_cv is working on, and the models already saved in the
\* directory it made for that batch
BatchLen == Len(partitions[numb_ind + 1].value)
BatchSaved ==
  \A k \in 1..BatchLen :
    \E f \in saved : /\ f.key = partition_numb[numb_ind + 1]
                     /\ f.stamp = now
                     /\ f.id = partitions[numb_ind + 1].value[k].id
\* the steps that may follow step e inside one call of auto_grid_cv
Follows(e, n) ==
  CASE e.type = "enter" ->
         /\ n.type = "guard"
         /\ n.key = run.batches[1]
    [] e.type = "guard" /\ e.skip ->
         /\ n.type = "guard"
         /\ n.key > e.key
         /\ n.key = run.batches[Len(run.visited) + 1]
    [] e.type = "guard" /\ ~e.skip ->
         n = Event("mkdir", e.key, 0, 0, FALSE)
    [] e.type = "mkdir" ->
         IF BatchLen > 0 THEN n = Event("fit", e.key, 0, 0, FALSE)
         ELSE n = Event("csv", e.key, 0, 0, FALSE)
    [] e.type = "fit" ->
         IF e.fold + 1 < Folds THEN n = Event("fit", e.key, e.ind, e.fold + 1, FALSE)
         ELSE n = Event("save", e.key, e.ind, 0, FALSE)
    [] e.type = "save" ->
         IF e.ind + 1 < BatchLen THEN n = Event("fit", e.key, e.ind + 1, 0, FALSE)
         ELSE n = Event("csv", e.key, 0, 0, FALSE) /\ BatchSaved
    [] e.type = "csv" ->
         /\ n.type = "guard"
         /\ n.key > e.key
         /\ n.key = run.batches[Len(run.visited) + 1]
    [] OTHER -> FALSE
\* C12: auto_grid_cv visits the batches in increasing key order; for a batch
\* it does not skip it checks the guard, makes the directory, then for each
\* model in batch order makes all its fit calls followed by its save, and
\* writes the batch's report once, after the last model is saved; nothing
\* of a batch is fitted or saved after its report within the run.
C12_BatchStepOrder ==
  [][(run.kind = "auto" /\ run'.kind = "auto" /\ run'.event # run.event)
       => Follows(run.event, run'.event)]_vars
\* a run has written the reports of two batches, one after the other
C12_Witness ==
  /\ run.kind = "auto"
  /\ run.event.type = "csv"
  /\ run.trained = {60, 120}
  /\ run.fits > Folds

\* ---------------------------------------------------------------------
\* C13
\* a step that is one fit call of the running entry point
FitStep == run'.kind = run.kind /\ run'.fits = run.fits + 1
\* the call continues the folds of the model fitted last, with a longer
\* training prefix, or starts at the first fold of another model once the
\* last fold of the previous one is done
FitInFoldOrder ==
  IF lastFit.kind # "none" /\ lastFit.fold + 1 < Folds
  THEN /\ lastFit'.id = lastFit.id
       /\ lastFit'.ind = lastFit.ind
       /\ lastFit'.key = lastFit.key
       /\ lastFit'.fold = lastFit.fold + 1
       /\ lastFit'.x[1] = lastFit.x[1]
       /\ lastFit'.x[2] > lastFit.x[2]
  ELSE /\ lastFit'.fold = 0
       /\ lastFit.kind # "none" => lastFit'.id # lastFit.id
\* a step that appends a model's rows to the report table
ReportStep == Len(report') > Len(report)
\* the rows appended are the epochs of the last fold's fit of the model
\* fitted last, and that fit was the model's last fold
RowsOfLastFit ==
  /\ lastFit.kind # "none"
  /\ lastFit.fold = Folds - 1
  /\ Len(report') = Len(report) + Epochs
  /\ \A e \in 1..Epochs :
       report'[Len(report) + e].loss = <<lastFit.id, Folds - 1, e>>
\* no row of a table comes from a fold before the last
LastFoldOnly(rows) == \A k \in 1..Len(rows) : rows[k].loss[2] = Folds - 1
\* C13: every model of a batch is fitted once per fold, in fold order, on the
\* same model and with a strictly longer training prefix from fold to fold;
\* the rows reported for it are those of the history of its last fit, and no
\* history of an earlier fold is in any report.
C13_LastFoldHistoryOnly ==
  /\ [](LastFoldOnly(report) /\ \A f \in reports : LastFoldOnly(f.rows))
  /\ [][(FitStep => FitInFoldOrder) /\ (ReportStep => RowsOfLastFit)]_vars
\* a report of two models has been written
C13_Witness ==
  /\ pc = "idle"
  /\ \E f \in reports : Len(f.rows) >= 2 * Epochs

\* ---------------------------------------------------------------------
\* C14
\* auto_grid_cv is at the head of its loop and the guard answers true for
\* the batch that comes next
GuardTrueForNext ==
  /\ pc = "auto_for"
  /\ numb_ind + 1 < Len(partitions)
  /\ existence_check(partitions[numb_ind + 2].key, listdir(dirs, reports))
\* the batch is passed over: the loop is at its head again, one batch on
PassedOver ==
  /\ pc' = "auto_for"
  /\ numb_ind' = numb_ind + 1
  /\ run'.kind = "auto"
  /\ run'.visited = Append(run.visited, partition_numb[numb_ind + 2])
\* nothing on disk and nothing of the run's work changed
NothingDone ==
  /\ UNCHANGED <<dirs, saved, reports>>
  /\ UNCHANGED <<report, history, lastFit, now, series_cv, partitions,
                 partition_numb, all_models, built, raised>>
  /\ run'.fits = run.fits
  /\ run'.mkdirs = run.mkdirs
  /\ run'.csvs = run.csvs
  /\ run'.started = run.started
  /\ run'.trained = run.trained
\* C14: when the guard answers true for a batch, auto_grid_cv makes no
\* directory, writes no model file and no report file, fits no model and
\* leaves the accumulated report table as it is, and goes on to the next
\* batch.
C14_SkipChangesNothing ==
  [][GuardTrueForNext => (NothingDone /\ PassedOver)]_vars
\* a run that trained a batch has then passed over a reported one, its
\* report table holding the rows of the batch it trained
C14_Witness ==
  /\ pc = "auto_for"
  /\ run.kind = "auto"
  /\ run.event = Event("guard", 120, 0, 0, TRUE)
  /\ run.trained = {60}
  /\ Len(report) > 0
====
